---- MODULE Spec2Model ----
(***************************************************************************)
(* Model of the event ingestion and notification engine:                   *)
(*   - RateLimitService  (src/src/services/rate-limit.service.ts)          *)
(*   - EventService.createEvent / createBatchEvents                        *)
(*                        (src/src/services/user.service.ts)               *)
(*   - WebhookService.triggerWebhooks / deliverWebhook                     *)
(*                        (src/unnamed/part_018)                           *)
(*   - WebhookRepository (src/src/repositories/webhook.repository.ts)      *)
(* Every await of the source is a step boundary: between two steps of one  *)
(* asynchronous call, steps of other calls may run.                        *)
(***************************************************************************)
EXTENDS Integers, Sequences, FiniteSets, TLC

(***************************************************************************)
(* Bounds of the model.                                                    *)
(***************************************************************************)
NumCallers == 3     \* checkRateLimit calls made in one behaviour
MaxClock == 3       \* the clock runs from 0 to MaxClock (milliseconds)
MaxLimit == 2       \* config.max is drawn from 1..MaxLimit
MaxWindow == 2      \* config.windowMs is drawn from 1..MaxWindow

MsPerSecond == 1000

MaxItems == 3       \* a batch holds 0..MaxItems events
MaxChunk == 2       \* EVENT_BATCH_CHUNK_SIZE is drawn from 1..MaxChunk
MaxConcurrent == 2  \* EVENT_BATCH_MAX_CONCURRENT is drawn from 1..MaxConcurrent
MAX_BATCH_SIZE == 1000

NumWebhooks == 2    \* webhooks in the webhook table
MaxRetries == 3     \* WebhookService.deliveryConfig.maxRetries

NumMonitored == 3   \* calls made to one decorated method
MaxRequests == 4    \* requests the rate-limit plugin sees from one ip

MaxStart == 1       \* an aggregation query starts at 0..MaxStart
MaxHalfHours == 5   \* bucket ranges lie on a half-hour grid of 0..MaxHalfHours
MAX_DATE_RANGE_DAYS == 90
TooManyRequests == 429

Callers == 1..NumCallers
NoRow == [id |-> 0, count |-> 0, resetAt |-> 0]
Webhooks == 1..NumWebhooks
NoResult == [success |-> FALSE, attempt |-> 0]
NoEvent == [id |-> 0, tag |-> 0, status |-> "none", error |-> 0]
NoInfo == [isLimited |-> FALSE, limit |-> 0, remaining |-> 0, reset |-> 0]
NoHit == [count |-> 0, resetTime |-> 0]
NoReply == [status |-> 0, body |-> {}, headers |-> {}]
NoResponse == [statusCode |-> 0, error |-> "none"]

Max2(a, b) == IF a >= b THEN a ELSE b

VARIABLES
  clock,      \* Date.now(), in milliseconds
  cfgMax,     \* RateLimitService.config.max
  cfgWindow,  \* RateLimitService.config.windowMs
  row,        \* the rateLimit row of the one (key, endpoint), or NoRow
  nextId,     \* the id the next created rateLimit row gets
  ver,        \* history: the number of writes made to the row so far
  rlPc,       \* per call: "idle", "started", "found", "done", "error"
  rlNow,      \* per call: the `now` of checkRateLimit
  rlFound,    \* per call: what findUnique returned
  rlVer,      \* history, per call: the value of ver when findUnique read the row
  rlInfo,     \* per call: what checkRateLimit returned
  hist        \* the completed calls, in order of completion: what each read
              \* (found), got back (ret), left stored (stored) and returned (info)

VARIABLES
  bItems,      \* input.events: per item its tag (what tells the items apart) and status
  bChunk,      \* EVENT_BATCH_CHUNK_SIZE
  bConc,       \* EVENT_BATCH_MAX_CONCURRENT
  bPc,         \* createBatchEvents: "idle", "creating", "triggering", "returned",
               \* "invalid" (validateBatchSize threw), "threw"
  bWave,       \* the loop variable i of the wave in flight (an offset into chunks)
  bCreate,     \* per item: "none", "inFlight", "created", "failed"
  bOut,        \* per item: what the item's async function resolved with
  bResults,    \* results
  bTrig,       \* per item: its triggerWebhooks call: "none", "running",
               \* "resolved", "rejected"
  bDoneOrder,  \* history: the items in the order their creates completed
  store,       \* the events eventRepository.create has stored
  sPc,         \* createEvent: "idle", "creating", "returned", "threw"
  sOut,        \* the event createEvent returned
  sTrig        \* createEvent's triggerWebhooks call

bVars == <<bItems, bChunk, bConc, bPc, bWave, bCreate, bOut, bResults, bTrig,
           bDoneOrder, store, sPc, sOut, sTrig>>

VARIABLES
  whEnabled,    \* per webhook: Webhook.enabled
  whSubscribed, \* per webhook: Webhook.events has the trigger's event type
  tPc,          \* triggerWebhooks: "idle", "finding", "running", "resolved", "rejected"
  tMatched,     \* the webhooks findByEventType returned
  dPc,          \* per delivery: "none", "posting", "sleeping", "updating",
                \* "recording", "returned", "threw"
  dAttempt,     \* per delivery: deliverWebhook's `attempt`
  dResult,      \* per delivery: the WebhookDeliveryResult being recorded / returned
  dHttp,        \* history, per delivery: the outcome of each HTTP call made
  dRecords,     \* per delivery: the WebhookDelivery rows created for it
  whSecret,     \* per webhook: Webhook.secret
  whRetryCount, \* per webhook: Webhook.retryCount
  tPayload,     \* the payload of the trigger
  dSent         \* history, per delivery: the requests POSTed, in order

whVars == <<whEnabled, whSubscribed, tPc, tMatched, dPc, dAttempt, dResult, dHttp, dRecords,
            whSecret, whRetryCount, tPayload, dSent>>

rlVars == <<clock, cfgMax, cfgWindow, row, nextId, ver, rlPc, rlNow, rlFound, rlVer, rlInfo, hist>>

VARIABLES
  tsInterval,   \* query.interval
  tsStart,      \* query.startTime, in seconds
  tsEnd,        \* query.endTime, in seconds
  tsPc,         \* the call on the aggregator: "idle", "done"
  tsOp,         \* the operation called, "none" before the call
  tsError,      \* the error the call threw, NoError when it returned
  tsView,       \* the view name aggregate resolved, "none" when it did not
  tsSuggested,  \* what suggestInterval returned
  tsBuckets     \* what generateBuckets returned

tsVars == <<tsInterval, tsStart, tsEnd, tsPc, tsOp, tsError, tsView, tsSuggested, tsBuckets>>

VARIABLES
  pMax,       \* the rate-limit plugin's max
  pWindow,    \* the rate-limit plugin's windowMs
  pHit,       \* hits.get(ip) for the one ip, or NoHit
  pRequests,  \* the number of requests the onRequest hook has seen
  pReply      \* what the hook did with the last request, NoReply before it

plVars == <<pMax, pWindow, pHit, pRequests, pReply>>

VARIABLES
  hKind,       \* the request: "single" (POST /) or "batch" (POST /batch)
  hMalformed,  \* an event of the body violates the event schema
  hPc,         \* the controller: "idle", "parsed", "replied"
  hResponse    \* the response sent, NoResponse before it

hVars == <<hKind, hMalformed, hPc, hResponse>>

VARIABLES
  mTimers,    \* PerformanceMonitor.timers: the operation ids that have a timer
  mPc,        \* per call of the decorated method: "idle", "running", "done"
  mOutcome,   \* per call: what the underlying method produced
  mReturned,  \* per call: what the decorated method produced
  mLog        \* the timing records logged, per call

mVars == <<mTimers, mPc, mOutcome, mReturned, mLog>>

vars == <<rlVars, whVars, bVars, tsVars, plVars, hVars, mVars>>

\* what the actions of one component leave alone
notRl == <<whVars, bVars, tsVars, plVars, hVars, mVars>>
notWh == <<rlVars, bVars, tsVars, plVars, hVars, mVars>>
notB == <<rlVars, whVars, tsVars, plVars, hVars, mVars>>
notTs == <<rlVars, whVars, bVars, plVars, hVars, mVars>>
notPl == <<rlVars, whVars, bVars, tsVars, hVars, mVars>>
notH == <<rlVars, whVars, bVars, tsVars, plVars, mVars>>
notM == <<rlVars, whVars, bVars, tsVars, plVars, hVars>>

(***************************************************************************)
(* RateLimitService                                                        *)
(***************************************************************************)

\* getOrCreateRateLimit: `!rateLimit || rateLimit.resetAt < now`
IsExpired(r, now) == r = NoRow \/ r.resetAt < now

\* mutant of UpsertRow: the update branch keeps counting instead of resetting
UpsertRowKeepCount(cur, resetAt, freshId) ==
  IF cur = NoRow
    THEN [id |-> freshId, count |-> 1, resetAt |-> resetAt]
    ELSE [id |-> cur.id, count |-> cur.count + 1, resetAt |-> resetAt]

\* prisma.rateLimit.upsert({where: key_endpoint, update: {count: 1, resetAt},
\*                          create: {key, endpoint, count: 1, resetAt}})
UpsertRow(cur, resetAt, freshId) ==
  IF cur = NoRow
    THEN [id |-> freshId, count |-> 1, resetAt |-> resetAt]
    ELSE [id |-> cur.id, count |-> 1, resetAt |-> resetAt]

\* mutant of IncrementRow: a rejected request (count already at max) is not counted
IncrementRowCapped(cur) ==
  [cur EXCEPT !.count = IF cur.count >= cfgMax THEN cur.count ELSE cur.count + 1]

\* prisma.rateLimit.update({where: {id}, data: {count: {increment: 1}}})
IncrementRow(cur) == [cur EXCEPT !.count = cur.count + 1]

\* mutant of CalculateLimitInfo: the request that reaches max is already rejected
CalculateLimitInfoOffByOne(count, resetAt, max) ==
  [isLimited |-> count >= max,
   limit |-> max,
   remaining |-> Max2(0, max - count),
   reset |-> resetAt \div MsPerSecond]

\* calculateLimitInfo(rateLimit, resetAt)
CalculateLimitInfo(count, resetAt, max) ==
  [isLimited |-> count > max,
   limit |-> max,
   remaining |-> Max2(0, max - count),
   reset |-> resetAt \div MsPerSecond]

RLInit ==
  /\ clock = 0
  /\ cfgMax \in 1..MaxLimit
  /\ cfgWindow \in 1..MaxWindow
  /\ row = NoRow
  /\ nextId = 1
  /\ ver = 0
  /\ rlPc = [c \in Callers |-> "idle"]
  /\ rlNow = [c \in Callers |-> 0]
  /\ rlFound = [c \in Callers |-> NoRow]
  /\ rlVer = [c \in Callers |-> 0]
  /\ rlInfo = [c \in Callers |-> NoInfo]
  /\ hist = <<>>

\* checkRateLimit: const now = new Date()
RLStart(c) ==
  /\ rlPc[c] = "idle"
  /\ rlPc' = [rlPc EXCEPT ![c] = "started"]
  /\ rlNow' = [rlNow EXCEPT ![c] = clock]
  /\ UNCHANGED <<clock, cfgMax, cfgWindow, row, nextId, ver, rlFound, rlVer, rlInfo, hist>>
  /\ UNCHANGED notRl

\* getOrCreateRateLimit: await prisma.rateLimit.findUnique(...)
RLFind(c) ==
  /\ rlPc[c] = "started"
  /\ rlPc' = [rlPc EXCEPT ![c] = "found"]
  /\ rlFound' = [rlFound EXCEPT ![c] = row]
  /\ rlVer' = [rlVer EXCEPT ![c] = ver]
  /\ UNCHANGED <<clock, cfgMax, cfgWindow, row, nextId, ver, rlNow, rlInfo, hist>>
  /\ UNCHANGED notRl

\* getOrCreateRateLimit: the upsert branch, then calculateLimitInfo
RLUpsert(c) ==
  /\ rlPc[c] = "found"
  /\ IsExpired(rlFound[c], rlNow[c])
  /\ LET new == UpsertRow(row, rlNow[c] + cfgWindow, nextId)
         info == CalculateLimitInfo(new.count, new.resetAt, cfgMax)
     IN /\ row' = new
        /\ nextId' = IF row = NoRow THEN nextId + 1 ELSE nextId
        /\ rlInfo' = [rlInfo EXCEPT ![c] = info]
        /\ hist' = Append(hist, [caller |-> c, now |-> rlNow[c], found |-> rlFound[c],
                                 foundVer |-> rlVer[c],
                                 ret |-> new, stored |-> new, info |-> info])
  /\ rlPc' = [rlPc EXCEPT ![c] = "done"]
  /\ UNCHANGED <<clock, cfgMax, cfgWindow, rlNow, rlFound, rlVer>>
  /\ UNCHANGED notRl
  /\ ver' = ver + 1

\* getOrCreateRateLimit: the update branch (by the id findUnique returned), the
\* original resetAt kept in the returned value, then calculateLimitInfo
RLIncrement(c) ==
  /\ rlPc[c] = "found"
  /\ ~IsExpired(rlFound[c], rlNow[c])
  /\ row # NoRow /\ row.id = rlFound[c].id
  /\ LET upd == IncrementRow(row)
         ret == [upd EXCEPT !.resetAt = rlFound[c].resetAt]
         info == CalculateLimitInfo(ret.count, ret.resetAt, cfgMax)
     IN /\ row' = upd
        /\ rlInfo' = [rlInfo EXCEPT ![c] = info]
        /\ hist' = Append(hist, [caller |-> c, now |-> rlNow[c], found |-> rlFound[c],
                                 foundVer |-> rlVer[c],
                                 ret |-> ret, stored |-> upd, info |-> info])
  /\ rlPc' = [rlPc EXCEPT ![c] = "done"]
  /\ UNCHANGED <<clock, cfgMax, cfgWindow, nextId, rlNow, rlFound, rlVer>>
  /\ UNCHANGED notRl
  /\ ver' = ver + 1

\* getOrCreateRateLimit: the update throws when no row has the id any more;
\* checkRateLimit rethrows it as AppError(INTERNAL)
RLUpdateMissing(c) ==
  /\ rlPc[c] = "found"
  /\ ~IsExpired(rlFound[c], rlNow[c])
  /\ (row = NoRow \/ row.id # rlFound[c].id)
  /\ rlPc' = [rlPc EXCEPT ![c] = "error"]
  /\ UNCHANGED <<clock, cfgMax, cfgWindow, row, nextId, ver, rlNow, rlFound, rlVer, rlInfo, hist>>
  /\ UNCHANGED notRl

\* mutant of CheckFails: a failed check lets the request through
CheckFailsOpen(c) ==
  /\ rlPc' = [rlPc EXCEPT ![c] = "done"]
  /\ rlInfo' = [rlInfo EXCEPT ![c] = CalculateLimitInfo(0, rlNow[c] + cfgWindow, cfgMax)]

\* checkRateLimit: the catch block logs the error and throws
\* AppError(ErrorType.INTERNAL, 'Failed to check rate limit', 500); nothing is
\* returned
CheckFails(c) ==
  /\ rlPc' = [rlPc EXCEPT ![c] = "error"]
  /\ rlInfo' = rlInfo

\* getOrCreateRateLimit: findUnique rejects (a storage error)
RLFindFails(c) ==
  /\ rlPc[c] = "started"
  /\ CheckFails(c)
  /\ UNCHANGED <<clock, cfgMax, cfgWindow, row, nextId, ver, rlNow, rlFound, rlVer, hist>>
  /\ UNCHANGED notRl

\* getOrCreateRateLimit: the upsert or the update rejects (a storage error);
\* the row is not written
RLWriteFails(c) ==
  /\ rlPc[c] = "found"
  /\ CheckFails(c)
  /\ UNCHANGED <<clock, cfgMax, cfgWindow, row, nextId, ver, rlNow, rlFound, rlVer, hist>>
  /\ UNCHANGED notRl

\* cleanup: deleteMany({where: {resetAt: {lt: new Date()}}})
Cleanup ==
  /\ row # NoRow
  /\ row.resetAt < clock
  /\ row' = NoRow
  /\ UNCHANGED <<clock, cfgMax, cfgWindow, nextId, rlPc, rlNow, rlFound, rlVer, rlInfo, hist>>
  /\ UNCHANGED notRl
  /\ ver' = ver + 1

\* time passes
Tick ==
  /\ clock < MaxClock
  /\ clock' = clock + 1
  /\ UNCHANGED <<cfgMax, cfgWindow, row, nextId, ver, rlPc, rlNow, rlFound, rlVer, rlInfo, hist>>
  /\ UNCHANGED notRl


(***************************************************************************)
(* WebhookService.triggerWebhooks / deliverWebhook and                     *)
(* WebhookRepository.findByEventType / updateDeliveryStatus, for one       *)
(* trigger of one event type.  A delivery is named by the webhook it goes  *)
(* to (its deliveryId is generated once, before the first attempt).        *)
(***************************************************************************)

\* mutant of FindByEventType: the enabled flag is not looked at
FindByEventTypeAnyState == {w \in Webhooks : whSubscribed[w]}

\* findByEventType(eventType, true): enabled webhooks whose events has eventType
FindByEventType == {w \in Webhooks : whEnabled[w] /\ whSubscribed[w]}

\* the WebhookDeliveryResult of a successful attempt
SuccessResult(attempt) == [success |-> TRUE, attempt |-> attempt]

\* the WebhookDeliveryResult built after the retry loop ("All retries failed")
FailedResult(attempt) == [success |-> FALSE, attempt |-> attempt]

\* updateDeliveryStatus: the data of prisma.webhookDelivery.create
DeliveryRecord(w, result) ==
  [webhookId |-> w,
   status |-> IF result.success THEN "success" ELSE "failed",
   retryCount |-> result.attempt]

\* deliverWebhook: `while (attempt < maxRetries)`, after the catch block
CanRetry(attempt) == attempt < MaxRetries

\* JSON.stringify(payload), and the body axios makes of the same payload: the
\* JSON text of the payload
JsonStringify(payload) == <<"json", payload>>

\* createHmac('sha256', secret).update(text): the MAC of the text under the key
HmacSha256(secret, text) == <<"hmac-sha256", secret, text>>

\* digest('hex')
Hex(mac) == <<"hex", mac>>

\* generateSignature(secret, payload)
GenerateSignature(secret, payload) == Hex(HmacSha256(secret, payload))

\* mutant of SignedRequest: the attempt number is signed with the payload
SignedRequestPerAttempt(w, attempt) ==
  [webhookId |-> w,
   body |-> JsonStringify(tPayload),
   signature |-> GenerateSignature(whSecret[w], JsonStringify(<<tPayload, attempt>>))]

\* deliverWebhook: the POST of one attempt: axios.post(webhook.url, payload,
\* {headers: {signature, webhook id, delivery id, event type}})
SignedRequest(w, attempt) ==
  [webhookId |-> w,
   body |-> JsonStringify(tPayload),
   signature |-> GenerateSignature(whSecret[w], JsonStringify(tPayload))]

Secrets == {"s1", "s2"}
Payloads == {"p1", "p2"}
RetryCounts == {1, 2}

\* no trigger has been made
WhIdle ==
  /\ tPc = "idle"
  /\ tMatched = {}
  /\ dPc = [w \in Webhooks |-> "none"]
  /\ dAttempt = [w \in Webhooks |-> 0]
  /\ dResult = [w \in Webhooks |-> NoResult]
  /\ dHttp = [w \in Webhooks |-> <<>>]
  /\ dRecords = [w \in Webhooks |-> <<>>]
  /\ dSent = [w \in Webhooks |-> <<>>]

WhInit ==
  /\ whEnabled \in [Webhooks -> BOOLEAN]
  /\ whSubscribed \in [Webhooks -> BOOLEAN]
  /\ whSecret = [w \in Webhooks |-> "s1"]
  /\ whRetryCount = [w \in Webhooks |-> MaxRetries]
  /\ tPayload = "p1"
  /\ dSent = [w \in Webhooks |-> <<>>]
  /\ tPc = "idle"
  /\ tMatched = {}
  /\ dPc = [w \in Webhooks |-> "none"]
  /\ dAttempt = [w \in Webhooks |-> 0]
  /\ dResult = [w \in Webhooks |-> NoResult]
  /\ dHttp = [w \in Webhooks |-> <<>>]
  /\ dRecords = [w \in Webhooks |-> <<>>]

\* triggerWebhooks: await webhookRepository.findByEventType(eventType, true)
TriggerWebhooks ==
  /\ tPc = "idle"
  /\ tPc' = "finding"
  /\ UNCHANGED <<whEnabled, whSubscribed, tMatched, dPc, dAttempt, dResult, dHttp, dRecords>>
  /\ UNCHANGED <<whSecret, whRetryCount, tPayload, dSent>>
  /\ UNCHANGED notWh

\* triggerWebhooks: webhooks.map(webhook => deliverWebhook(...)); every
\* deliverWebhook runs up to its first await: attempt = 1 and the POST is sent
TriggerDeliver ==
  /\ tPc = "finding"
  /\ tPc' = "running"
  /\ tMatched' = FindByEventType
  /\ dPc' = [w \in Webhooks |-> IF w \in FindByEventType THEN "posting" ELSE dPc[w]]
  /\ dAttempt' = [w \in Webhooks |-> IF w \in FindByEventType THEN 1 ELSE dAttempt[w]]
  /\ dSent' = [w \in Webhooks |->
                 IF w \in FindByEventType THEN <<SignedRequest(w, 1)>> ELSE dSent[w]]
  /\ UNCHANGED <<whEnabled, whSubscribed, dResult, dHttp, dRecords>>
  /\ UNCHANGED <<whSecret, whRetryCount, tPayload>>
  /\ UNCHANGED notWh

\* deliverWebhook: axios.post resolves (2xx); the result is built and
\* updateDeliveryStatus is called, inside the try block
HttpSuccess(w) ==
  /\ dPc[w] = "posting"
  /\ dHttp' = [dHttp EXCEPT ![w] = Append(@, TRUE)]
  /\ dResult' = [dResult EXCEPT ![w] = SuccessResult(dAttempt[w])]
  /\ dPc' = [dPc EXCEPT ![w] = "updating"]
  /\ UNCHANGED <<whEnabled, whSubscribed, tPc, tMatched, dAttempt, dRecords>>
  /\ UNCHANGED <<whSecret, whRetryCount, tPayload, dSent>>
  /\ UNCHANGED notWh

\* mutant of AfterCatch: when the retries are exhausted the last error is
\* rethrown instead of being turned into a failed result
AfterCatchRethrows(w) ==
  IF CanRetry(dAttempt[w])
    THEN /\ dPc' = [dPc EXCEPT ![w] = "sleeping"]
         /\ dResult' = [dResult EXCEPT ![w] = NoResult]
    ELSE /\ dPc' = [dPc EXCEPT ![w] = "threw"]
         /\ dResult' = [dResult EXCEPT ![w] = NoResult]

\* deliverWebhook: what the catch block and the loop condition do after a
\* failure of attempt `dAttempt[w]`: sleep and retry, or leave the loop and
\* call updateDeliveryStatus with the failed result
AfterCatch(w) ==
  IF CanRetry(dAttempt[w])
    THEN /\ dPc' = [dPc EXCEPT ![w] = "sleeping"]
         /\ dResult' = [dResult EXCEPT ![w] = NoResult]
    ELSE /\ dPc' = [dPc EXCEPT ![w] = "updating"]
         /\ dResult' = [dResult EXCEPT ![w] = FailedResult(dAttempt[w])]

\* deliverWebhook: axios.post rejects (network error, non-2xx, timeout)
HttpFailure(w) ==
  /\ dPc[w] = "posting"
  /\ dHttp' = [dHttp EXCEPT ![w] = Append(@, FALSE)]
  /\ AfterCatch(w)
  /\ UNCHANGED <<whEnabled, whSubscribed, tPc, tMatched, dAttempt, dRecords>>
  /\ UNCHANGED <<whSecret, whRetryCount, tPayload, dSent>>
  /\ UNCHANGED notWh

\* deliverWebhook: sleep(retryDelays[attempt - 1]) is over; attempt++ and the
\* next POST is sent
Wake(w) ==
  /\ dPc[w] = "sleeping"
  /\ dAttempt' = [dAttempt EXCEPT ![w] = @ + 1]
  /\ dPc' = [dPc EXCEPT ![w] = "posting"]
  /\ dSent' = [dSent EXCEPT ![w] = Append(@, SignedRequest(w, dAttempt[w] + 1))]
  /\ UNCHANGED <<whEnabled, whSubscribed, tPc, tMatched, dResult, dHttp, dRecords>>
  /\ UNCHANGED <<whSecret, whRetryCount, tPayload>>
  /\ UNCHANGED notWh

\* updateDeliveryStatus: prisma.webhook.update({data: {enabled: result.success}})
UpdateWebhook(w) ==
  /\ dPc[w] = "updating"
  /\ whEnabled' = [whEnabled EXCEPT ![w] = dResult[w].success]
  /\ dPc' = [dPc EXCEPT ![w] = "recording"]
  /\ UNCHANGED <<whSubscribed, tPc, tMatched, dAttempt, dResult, dHttp, dRecords>>
  /\ UNCHANGED <<whSecret, whRetryCount, tPayload, dSent>>
  /\ UNCHANGED notWh

\* updateDeliveryStatus: prisma.webhookDelivery.create(...); deliverWebhook
\* returns the result
CreateDelivery(w) ==
  /\ dPc[w] = "recording"
  /\ dRecords' = [dRecords EXCEPT ![w] = Append(@, DeliveryRecord(w, dResult[w]))]
  /\ dPc' = [dPc EXCEPT ![w] = "returned"]
  /\ UNCHANGED <<whEnabled, whSubscribed, tPc, tMatched, dAttempt, dResult, dHttp>>
  /\ UNCHANGED <<whSecret, whRetryCount, tPayload, dSent>>
  /\ UNCHANGED notWh

\* updateDeliveryStatus throws (either of its two writes fails).  Called from
\* inside the try block (result.success) the catch block takes it as a failed
\* attempt; called after the loop, deliverWebhook rejects
UpdateDeliveryStatusThrows(w) ==
  /\ dPc[w] \in {"updating", "recording"}
  /\ IF dResult[w].success
       THEN AfterCatch(w)
       ELSE /\ dPc' = [dPc EXCEPT ![w] = "threw"]
            /\ dResult' = [dResult EXCEPT ![w] = NoResult]
  /\ UNCHANGED <<whEnabled, whSubscribed, tPc, tMatched, dAttempt, dHttp, dRecords>>
  /\ UNCHANGED <<whSecret, whRetryCount, tPayload, dSent>>
  /\ UNCHANGED notWh

\* triggerWebhooks: Promise.all resolves once every delivery has returned
TriggerResolves ==
  /\ tPc = "running"
  /\ \A w \in tMatched : dPc[w] = "returned"
  /\ tPc' = "resolved"
  /\ UNCHANGED <<whEnabled, whSubscribed, tMatched, dPc, dAttempt, dResult, dHttp, dRecords>>
  /\ UNCHANGED <<whSecret, whRetryCount, tPayload, dSent>>
  /\ UNCHANGED notWh

\* triggerWebhooks: Promise.all rejects as soon as one delivery has rejected
TriggerRejects ==
  /\ tPc = "running"
  /\ \E w \in tMatched : dPc[w] = "threw"
  /\ tPc' = "rejected"
  /\ UNCHANGED <<whEnabled, whSubscribed, tMatched, dPc, dAttempt, dResult, dHttp, dRecords>>
  /\ UNCHANGED <<whSecret, whRetryCount, tPayload, dSent>>
  /\ UNCHANGED notWh

WhNext ==
  \/ TriggerWebhooks
  \/ TriggerDeliver
  \/ \E w \in Webhooks : HttpSuccess(w)
  \/ \E w \in Webhooks : HttpFailure(w)
  \/ \E w \in Webhooks : Wake(w)
  \/ \E w \in Webhooks : UpdateWebhook(w)
  \/ \E w \in Webhooks : CreateDelivery(w)
  \/ \E w \in Webhooks : UpdateDeliveryStatusThrows(w)
  \/ TriggerResolves
  \/ TriggerRejects

(***************************************************************************)
(* EventService.createEvent / createBatchEvents.  An event is its id, the  *)
(* tag of the input it was made from, its status and, for the placeholder  *)
(* of a failed item, the message of the error its create threw.  A         *)
(* triggerWebhooks call is seen from its caller: running until its promise *)
(* settles.                                                                *)
(***************************************************************************)
Min2(a, b) == IF a <= b THEN a ELSE b

RECURSIVE Flat(_)
\* Array.prototype.flat on an array of arrays
Flat(ss) == IF ss = <<>> THEN <<>> ELSE Head(ss) \o Flat(Tail(ss))

\* mutant of ValidBatchSize: the maximum is off by one
ValidBatchSizeOffByOne(n) == n >= 1 /\ n <= MAX_BATCH_SIZE + 1

\* validateBatchSize: z.number().int().min(1).max(MAX_BATCH_SIZE)
ValidBatchSize(n) == n >= 1 /\ n <= MAX_BATCH_SIZE

\* the chunking loop: chunk j (from 0) is events.slice(j * C, j * C + C), here
\* as the positions (from 1) of its items
NumChunks == (Len(bItems) + bChunk - 1) \div bChunk
Chunk(j) == [x \in 1..(Min2(j * bChunk + bChunk, Len(bItems)) - j * bChunk) |-> j * bChunk + x]

\* chunks.slice(i, i + MAX_CONCURRENT), as chunk numbers
WaveChunks(i) == [x \in 1..(Min2(i + bConc, NumChunks) - i) |-> i + x - 1]

\* the items whose creates the wave at offset i issues
WaveItems(i) == {k \in 1..Len(bItems) : \E x \in 1..Len(WaveChunks(i)) :
                   \E y \in 1..Len(Chunk(WaveChunks(i)[x])) : Chunk(WaveChunks(i)[x])[y] = k}

\* mutant of WaveSettled: only the first chunk of the wave is awaited
FirstChunkSettled(i) ==
  \A y \in 1..Len(Chunk(i)) : bCreate[Chunk(i)[y]] \in {"created", "failed"}

\* await Promise.all(chunkPromises): every create of every chunk of the wave
\* has settled
WaveSettled(i) == \A k \in WaveItems(i) : bCreate[k] \in {"created", "failed"}

\* mutant of WaveResults: results are appended as the creates complete
WaveResultsByCompletion(i) ==
  LET done == SelectSeq(bDoneOrder, LAMBDA k : k \in WaveItems(i))
  IN [x \in 1..Len(done) |-> bOut[done[x]]]

\* chunkResults.flat(): Promise.all keeps each chunk's results in the order of
\* the chunk's items, and the chunks in their order
WaveResults(i) ==
  Flat([x \in 1..Len(WaveChunks(i)) |->
          [y \in 1..Len(Chunk(WaveChunks(i)[x])) |-> bOut[Chunk(WaveChunks(i)[x])[y]]]])

\* the id the store gives the event made from the input with this tag (ids are
\* unique; 0 stands for the '' of a failed item's placeholder)
EventId(tag) == tag + 1

\* what eventRepository.create resolves with
CreatedEvent(item) ==
  [id |-> EventId(item.tag), tag |-> item.tag, status |-> item.status, error |-> 0]

\* the catch block of an item: {...event, status: 'failed', error: message, id: ''}
FailedEvent(item, message) == [id |-> 0, tag |-> item.tag, status |-> "failed", error |-> message]

\* results.filter(event => event.status !== 'failed'), as positions in results
SuccessfulEvents(results) == {k \in 1..Len(results) : results[k].status # "failed"}

\* EventController.createBatchEvents: the summary of the response
Summary(results) ==
  [total |-> Len(results),
   success |-> Cardinality(SuccessfulEvents(results)),
   failed |-> Len(results) - Cardinality(SuccessfulEvents(results))]

\* a batch of one item more than the maximum batch size
OversizedBatch == [k \in 1..(MAX_BATCH_SIZE + 1) |-> [tag |-> k, status |-> "pending"]]

BInit ==
  /\ \/ \E n \in 0..MaxItems : \E st \in [1..n -> {"pending", "failed"}] :
          bItems = [k \in 1..n |-> [tag |-> k, status |-> st[k]]]
     \/ bItems = OversizedBatch
  /\ bChunk \in 1..MaxChunk
  /\ bConc \in 1..MaxConcurrent
  /\ bPc = "idle"
  /\ bWave = 0
  /\ bCreate = [k \in 1..Max2(MaxItems, Len(bItems)) |-> "none"]
  /\ bOut = [k \in 1..MaxItems |-> NoEvent]
  /\ bResults = <<>>
  /\ bTrig = [k \in 1..MaxItems |-> "none"]
  /\ bDoneOrder = <<>>
  /\ store = {}
  /\ sPc = "idle"
  /\ sOut = NoEvent
  /\ sTrig = "none"

\* the creates of the wave at offset i are issued
IssueWave(i) == bCreate' = [k \in 1..MaxItems |-> IF k \in WaveItems(i) THEN "inFlight" ELSE bCreate[k]]

\* createBatchEvents: validateBatchSize throws outside the try block
BatchInvalid ==
  /\ bPc = "idle"
  /\ ~ValidBatchSize(Len(bItems))
  /\ bPc' = "invalid"
  /\ UNCHANGED <<bItems, bChunk, bConc, bWave, bCreate, bOut, bResults, bTrig,
                 bDoneOrder, store, sPc, sOut, sTrig>>
  /\ UNCHANGED notB

\* createBatchEvents: the batch is chunked and the creates of the first wave
\* are issued
BatchStart ==
  /\ bPc = "idle"
  /\ ValidBatchSize(Len(bItems))
  /\ bPc' = "creating"
  /\ bWave' = 0
  /\ IssueWave(0)
  /\ UNCHANGED <<bItems, bChunk, bConc, bOut, bResults, bTrig,
                 bDoneOrder, store, sPc, sOut, sTrig>>
  /\ UNCHANGED notB

\* eventRepository.create of item k resolves: the event is stored
CreateResolves(k) ==
  /\ bCreate[k] = "inFlight"
  /\ LET ev == CreatedEvent(bItems[k])
     IN /\ store' = store \cup {ev}
        /\ bOut' = [bOut EXCEPT ![k] = ev]
  /\ bCreate' = [bCreate EXCEPT ![k] = "created"]
  /\ bDoneOrder' = Append(bDoneOrder, k)
  /\ UNCHANGED <<bItems, bChunk, bConc, bPc, bWave, bResults, bTrig, sPc, sOut, sTrig>>
  /\ UNCHANGED notB

\* mutant of ItemCatch: the error of one item's create is not caught, the
\* Promise.all of the wave rejects and createBatchEvents throws
ItemNoCatch(k) ==
  /\ bOut' = bOut
  /\ bPc' = "threw"

\* the try/catch around one item's create: the item resolves with the failed
\* placeholder and the batch goes on
ItemCatch(k) ==
  /\ bOut' = [bOut EXCEPT ![k] = FailedEvent(bItems[k], k)]
  /\ bPc' = bPc

\* eventRepository.create of item k rejects (with an error whose message names
\* the item); nothing is stored
CreateRejects(k) ==
  /\ bCreate[k] = "inFlight"
  /\ bPc = "creating"
  /\ ItemCatch(k)
  /\ bCreate' = [bCreate EXCEPT ![k] = "failed"]
  /\ bDoneOrder' = Append(bDoneOrder, k)
  /\ UNCHANGED <<bItems, bChunk, bConc, bWave, bResults, bTrig, store,
                 sPc, sOut, sTrig>>
  /\ UNCHANGED notB

\* createBatchEvents: Promise.all of the wave resolves; its results are pushed
\* and the creates of the next wave are issued
NextWave ==
  /\ bPc = "creating"
  /\ WaveSettled(bWave)
  /\ bWave + bConc < NumChunks
  /\ bResults' = bResults \o WaveResults(bWave)
  /\ bWave' = bWave + bConc
  /\ IssueWave(bWave + bConc)
  /\ UNCHANGED <<bItems, bChunk, bConc, bPc, bOut, bTrig, bDoneOrder, store, sPc, sOut, sTrig>>
  /\ UNCHANGED notB

\* createBatchEvents: Promise.all of the last wave resolves; its results are
\* pushed, triggerWebhooks is called for every successful event and the
\* Promise.all of these calls is awaited
LastWave ==
  /\ bPc = "creating"
  /\ WaveSettled(bWave)
  /\ bWave + bConc >= NumChunks
  /\ LET results == bResults \o WaveResults(bWave)
     IN /\ bResults' = results
        /\ bTrig' = [k \in 1..MaxItems |->
                       IF k \in SuccessfulEvents(results) THEN "running" ELSE bTrig[k]]
  /\ bPc' = "triggering"
  /\ UNCHANGED <<bItems, bChunk, bConc, bWave, bCreate, bOut, bDoneOrder, store, sPc, sOut, sTrig>>
  /\ UNCHANGED notB

\* mutant of TriggerCaught: a rejected triggerWebhooks call is not caught and
\* the Promise.all of the calls rejects
TriggerNotCaught(outcome) == bPc' = IF outcome = "rejected" THEN "threw" ELSE bPc

\* triggerWebhooks(...).catch(error => logger.error(...)): the rejection is
\* logged and the call's promise resolves
TriggerCaught(outcome) == bPc' = bPc

\* a triggerWebhooks call of the batch settles: it resolves once every delivery
\* has ended, or rejects (the .catch logs the error)
BatchTriggerSettles(k) ==
  /\ bTrig[k] = "running"
  /\ \E outcome \in {"resolved", "rejected"} :
       /\ bTrig' = [bTrig EXCEPT ![k] = outcome]
       /\ TriggerCaught(outcome)
  /\ UNCHANGED <<bItems, bChunk, bConc, bWave, bCreate, bOut, bResults,
                 bDoneOrder, store, sPc, sOut, sTrig>>
  /\ UNCHANGED notB

\* createBatchEvents: `await Promise.all(successfulEvents.map(...))` resolves
\* and the results are returned
BatchReturn ==
  /\ bPc = "triggering"
  /\ \A k \in 1..MaxItems : bTrig[k] # "running"
  /\ bPc' = "returned"
  /\ UNCHANGED <<bItems, bChunk, bConc, bWave, bCreate, bOut, bResults, bTrig,
                 bDoneOrder, store, sPc, sOut, sTrig>>
  /\ UNCHANGED notB

\* createEvent: await eventRepository.create(...)
SingleStart ==
  /\ sPc = "idle"
  /\ sPc' = "creating"
  /\ UNCHANGED <<bItems, bChunk, bConc, bPc, bWave, bCreate, bOut, bResults, bTrig,
                 bDoneOrder, store, sOut, sTrig>>
  /\ UNCHANGED notB

\* createEvent: the create resolves; triggerWebhooks is called and not awaited,
\* and the event is returned
SingleCreated ==
  /\ sPc = "creating"
  /\ LET ev == CreatedEvent([tag |-> 0, status |-> "pending"])
     IN /\ store' = store \cup {ev}
        /\ sOut' = ev
  /\ sTrig' = "running"
  /\ sPc' = "returned"
  /\ UNCHANGED <<bItems, bChunk, bConc, bPc, bWave, bCreate, bOut, bResults, bTrig,
                 bDoneOrder>>
  /\ UNCHANGED notB

\* createEvent: the create rejects and createEvent rethrows
SingleFailed ==
  /\ sPc = "creating"
  /\ sPc' = "threw"
  /\ UNCHANGED <<bItems, bChunk, bConc, bPc, bWave, bCreate, bOut, bResults, bTrig,
                 bDoneOrder, store, sOut, sTrig>>
  /\ UNCHANGED notB

\* the triggerWebhooks call of createEvent settles
SingleTriggerSettles ==
  /\ sTrig = "running"
  /\ \E outcome \in {"resolved", "rejected"} : sTrig' = outcome
  /\ UNCHANGED <<bItems, bChunk, bConc, bPc, bWave, bCreate, bOut, bResults, bTrig,
                 bDoneOrder, store, sPc, sOut>>
  /\ UNCHANGED notB

(***************************************************************************)
(* TimeSeriesAggregator (src/src/services/auth.service.ts) and             *)
(* EventService.aggregateEvents.  Times are in seconds (the source's are   *)
(* in milliseconds; every input of the model is a whole second), and a     *)
(* Date is taken in a time zone without clock changes, so that setHours    *)
(* and setDate add exactly one hour and one day.                           *)
(***************************************************************************)
Hour == 60 * 60
Day == 24 * Hour

Intervals == {"1m", "5m", "15m", "1h", "1d"}

\* INTERVAL_CONFIGS: viewName, maxTimeRange and the width of pgInterval
IntervalConfigs(interval) ==
  CASE interval = "1m"  -> [viewName |-> "events_1m",  width |-> 60,        maxTimeRange |-> Day]
    [] interval = "5m"  -> [viewName |-> "events_5m",  width |-> 5 * 60,    maxTimeRange |-> 7 * Day]
    [] interval = "15m" -> [viewName |-> "events_15m", width |-> 15 * 60,   maxTimeRange |-> 30 * Day]
    [] interval = "1h"  -> [viewName |-> "events_1h",  width |-> Hour,      maxTimeRange |-> 90 * Day]
    [] interval = "1d"  -> [viewName |-> "events_1d",  width |-> Day,       maxTimeRange |-> 365 * Day]

NoError == [class |-> "none", type |-> "none", statusCode |-> 0, check |-> "none"]

\* new AppError(ErrorType.VALIDATION, message, 400); `check` names the test
\* that failed (the message)
ValidationError(check) ==
  [class |-> "AppError", type |-> "VALIDATION", statusCode |-> 400, check |-> check]

\* the ZodError thrown by a zod schema's parse
ZodError(check) == [class |-> "ZodError", type |-> "none", statusCode |-> 0, check |-> check]

\* validateDateRange: CommonValidation.dateRange.parse: endTime > startTime,
\* and at most MAX_DATE_RANGE_DAYS days between them
ValidateDateRange(startTime, endTime) ==
  IF ~(endTime > startTime) THEN ZodError("order")
  ELSE IF endTime - startTime > MAX_DATE_RANGE_DAYS * Day THEN ZodError("span")
  ELSE NoError

\* TimeSeriesAggregator.validateTimeRangeForInterval
ValidateTimeRangeForInterval(interval, startTime, endTime) ==
  LET timeRange == endTime - startTime
  IN IF timeRange <= 0 THEN ValidationError("order")
     ELSE IF timeRange > IntervalConfigs(interval).maxTimeRange THEN ValidationError("span")
     ELSE NoError

\* the controller's catch block and formatErrorResponse: an AppError answers
\* with its own status and type, any other error with 500 and INTERNAL
ErrorResponse(error) ==
  IF error.class = "AppError"
    THEN [statusCode |-> error.statusCode, error |-> error.type]
    ELSE [statusCode |-> 500, error |-> "INTERNAL"]

Abs(x) == IF x < 0 THEN 0 - x ELSE x

\* TimeSeriesAggregator.suggestInterval
SuggestInterval(startTime, endTime) ==
  LET diff == Abs(endTime - startTime)
  IN IF diff <= 24 * Hour THEN "1h"
     ELSE IF diff <= 24 * 7 * Hour THEN "1d"
     ELSE IF diff <= 24 * 30 * Hour THEN "1d"
     ELSE "1d"

\* mutant of ClipBucketEnd: the last bucket is not clipped
NoClipBucketEnd(bucketEnd, endTime) == bucketEnd

\* generateBuckets: `if (bucketEnd > endTime) bucketEnd = new Date(endTime)`
ClipBucketEnd(bucketEnd, endTime) == IF bucketEnd > endTime THEN endTime ELSE bucketEnd

\* generateBuckets: the end of the bucket that starts at currentTime, before
\* clipping
BucketEnd(currentTime, startTime, endTime) ==
  CASE SuggestInterval(startTime, endTime) = "1h" -> currentTime + Hour
    [] SuggestInterval(startTime, endTime) = "1d" -> currentTime + Day
    [] OTHER -> currentTime + Day

RECURSIVE BucketsFrom(_, _, _)
\* generateBuckets: the loop, from `currentTime` on
BucketsFrom(currentTime, startTime, endTime) ==
  IF currentTime < endTime
    THEN LET bucketEnd == ClipBucketEnd(BucketEnd(currentTime, startTime, endTime), endTime)
         IN <<[start |-> currentTime, end |-> bucketEnd]>>
              \o BucketsFrom(bucketEnd, startTime, endTime)
    ELSE <<>>

\* TimeSeriesAggregator.generateBuckets
GenerateBuckets(startTime, endTime) == BucketsFrom(startTime, startTime, endTime)

\* what a call on the aggregator leaves behind
TsDone(op, error, view, suggested, buckets) ==
  /\ tsPc = "idle"
  /\ tsPc' = "done"
  /\ tsOp' = op
  /\ tsError' = error
  /\ tsView' = view
  /\ tsSuggested' = suggested
  /\ tsBuckets' = buckets
  /\ UNCHANGED <<tsInterval, tsStart, tsEnd>>
  /\ UNCHANGED notTs

\* TimeSeriesAggregator.aggregate: the range is validated, then the view is
\* resolved
Aggregate ==
  LET error == ValidateTimeRangeForInterval(tsInterval, tsStart, tsEnd)
  IN TsDone("aggregate", error,
            IF error = NoError THEN IntervalConfigs(tsInterval).viewName ELSE "none",
            "none", <<>>)

\* EventService.aggregateEvents: validateDateRange, then
\* timeSeriesAggregator.aggregate, whose error is rethrown
AggregateEvents ==
  LET first == ValidateDateRange(tsStart, tsEnd)
      second == ValidateTimeRangeForInterval(tsInterval, tsStart, tsEnd)
      error == IF first # NoError THEN first ELSE second
  IN TsDone("aggregateEvents", error,
            IF error = NoError THEN IntervalConfigs(tsInterval).viewName ELSE "none",
            "none", <<>>)

\* a call of suggestInterval
CallSuggestInterval ==
  TsDone("suggestInterval", NoError, "none", SuggestInterval(tsStart, tsEnd), <<>>)

\* a call of generateBuckets
CallGenerateBuckets ==
  TsDone("generateBuckets", NoError, "none", "none", GenerateBuckets(tsStart, tsEnd))

(***************************************************************************)
(* The in-memory rate limiter of src/src/plugins/rate-limit.ts: an         *)
(* onRequest hook counting the requests of an ip (one ip here).  A reply   *)
(* is its status, the fields of its body and the names of its headers; a   *)
(* request the hook lets through is shown as PassedOn.                     *)
(***************************************************************************)
PassedOn == [status |-> 200, body |-> {}, headers |-> {}]

\* reply.status(statusCode).send({error: message})
RejectedReply == [status |-> TooManyRequests, body |-> {"error"}, headers |-> {}]

\* RateLimitService.getHeaders(info): the header names it returns
GetHeaders(headersOn) ==
  IF ~headersOn THEN {}
  ELSE {"X-RateLimit-Limit", "X-RateLimit-Remaining", "X-RateLimit-Reset"}

\* the onRequest hook, for a request arriving now
PluginRequest ==
  /\ pRequests < MaxRequests
  /\ pRequests' = pRequests + 1
  /\ IF pHit = NoHit \/ clock > pHit.resetTime
       THEN /\ pHit' = [count |-> 1, resetTime |-> clock + pWindow]
            /\ pReply' = PassedOn
       ELSE /\ pHit' = [pHit EXCEPT !.count = @ + 1]
            /\ pReply' = IF pHit.count + 1 > pMax THEN RejectedReply ELSE PassedOn
  /\ UNCHANGED <<pMax, pWindow>>
  /\ UNCHANGED notPl

(***************************************************************************)
(* EventController.createSingleEvent / createBatchEvents (part_026): the   *)
(* body is parsed with the zod schema, the service is called and the       *)
(* answer is sent; every error is answered by the catch block.             *)
(***************************************************************************)

\* createBatchEventsSchema / createEventSchema accept the body: every event
\* satisfies eventBaseFields and, for a batch, events has 1..1000 entries
SchemaAccepts ==
  /\ ~hMalformed
  /\ hKind = "batch" => (Len(bItems) >= 1 /\ Len(bItems) <= MAX_BATCH_SIZE)

\* reply.status(201).send(...)
CreatedResponse == [statusCode |-> 201, error |-> "none"]

\* EventDto.parseCreate / parseBatch: schema.parse throws a ZodError, which
\* the catch block answers; otherwise the service is called
ControllerParse ==
  /\ hPc = "idle"
  /\ IF SchemaAccepts
       THEN /\ hPc' = "parsed"
            /\ hResponse' = hResponse
       ELSE /\ hPc' = "replied"
            /\ hResponse' = ErrorResponse(ZodError("schema"))
  /\ UNCHANGED <<hKind, hMalformed>>
  /\ UNCHANGED notH

\* the service call has returned and 201 is sent (createSingleEvent: with the
\* event, createBatchEvents: with results and summary)
ControllerReplyCreated ==
  /\ hPc = "parsed"
  /\ \/ hKind = "batch" /\ bPc = "returned"
     \/ hKind = "single" /\ sPc = "returned"
  /\ hPc' = "replied"
  /\ hResponse' = CreatedResponse
  /\ UNCHANGED <<hKind, hMalformed>>
  /\ UNCHANGED notH

\* createEvent has thrown (the create failed with a storage error, which is
\* not an AppError) and the catch block answers
ControllerReplyError ==
  /\ hPc = "parsed"
  /\ hKind = "single" /\ sPc = "threw"
  /\ hPc' = "replied"
  /\ hResponse' = ErrorResponse([class |-> "Error", type |-> "none", statusCode |-> 0, check |-> "none"])
  /\ UNCHANGED <<hKind, hMalformed>>
  /\ UNCHANGED notH

\* the service runs for a request the controller has parsed
BatchCalled == hKind = "batch" /\ hPc = "parsed"
SingleCalled == hKind = "single" /\ hPc \in {"parsed", "replied"}

InFlight(c) == rlPc[c] \in {"started", "found"}

\* no rate-limit call is ever made
RLOff ==
  /\ clock = 0
  /\ cfgMax = 1
  /\ cfgWindow = 1
  /\ row = NoRow
  /\ nextId = 1
  /\ ver = 0
  /\ rlPc = [c \in Callers |-> "idle"]
  /\ rlNow = [c \in Callers |-> 0]
  /\ rlFound = [c \in Callers |-> NoRow]
  /\ rlVer = [c \in Callers |-> 0]
  /\ rlInfo = [c \in Callers |-> NoInfo]
  /\ hist = <<>>

\* no webhook exists that a trigger could match, and no trigger is made
WhOff ==
  /\ whEnabled = [w \in Webhooks |-> FALSE]
  /\ whSubscribed = [w \in Webhooks |-> FALSE]
  /\ whSecret = [w \in Webhooks |-> "s1"]
  /\ whRetryCount = [w \in Webhooks |-> MaxRetries]
  /\ tPayload = "p1"
  /\ dSent = [w \in Webhooks |-> <<>>]
  /\ tPc = "idle"
  /\ tMatched = {}
  /\ dPc = [w \in Webhooks |-> "none"]
  /\ dAttempt = [w \in Webhooks |-> 0]
  /\ dResult = [w \in Webhooks |-> NoResult]
  /\ dHttp = [w \in Webhooks |-> <<>>]
  /\ dRecords = [w \in Webhooks |-> <<>>]

\* no event is ever submitted
BOff ==
  /\ bItems = <<>>
  /\ bChunk = 1
  /\ bConc = 1
  /\ bPc = "idle"
  /\ bWave = 0
  /\ bCreate = [k \in 1..MaxItems |-> "none"]
  /\ bOut = [k \in 1..MaxItems |-> NoEvent]
  /\ bResults = <<>>
  /\ bTrig = [k \in 1..MaxItems |-> "none"]
  /\ bDoneOrder = <<>>
  /\ store = {}
  /\ sPc = "idle"
  /\ sOut = NoEvent
  /\ sTrig = "none"

\* no request reaches the rate-limit plugin
PlOff ==
  /\ pMax = 1
  /\ pWindow = 1
  /\ pHit = NoHit
  /\ pRequests = 0
  /\ pReply = NoReply

\* no request reaches the event controller
HOff ==
  /\ hKind = "batch"
  /\ hMalformed = FALSE
  /\ hPc = "idle"
  /\ hResponse = NoResponse

\* no decorated method is called
MOff ==
  /\ mTimers = {}
  /\ mPc = [c \in 1..NumMonitored |-> "idle"]
  /\ mOutcome = [c \in 1..NumMonitored |-> "none"]
  /\ mReturned = [c \in 1..NumMonitored |-> "none"]
  /\ mLog = [c \in 1..NumMonitored |-> <<>>]

\* none of the request-level components is used
EdgeOff == PlOff /\ HOff /\ MOff

\* no call is ever made on the aggregator
TsOff ==
  /\ tsInterval = "1h"
  /\ tsStart = 0
  /\ tsEnd = 0
  /\ tsPc = "idle"
  /\ tsOp = "none"
  /\ tsError = NoError
  /\ tsView = "none"
  /\ tsSuggested = "none"
  /\ tsBuckets = <<>>

(***************************************************************************)
(* The rate limiter under concurrent callers: any call may start while     *)
(* others are in flight.                                                   *)
(***************************************************************************)
RateLimitInit == RLInit /\ WhOff /\ BOff /\ TsOff /\ EdgeOff

RateLimitNext ==
  \/ \E c \in Callers : RLStart(c)
  \/ \E c \in Callers : RLFind(c)
  \/ \E c \in Callers : RLUpsert(c)
  \/ \E c \in Callers : RLIncrement(c)
  \/ \E c \in Callers : RLUpdateMissing(c)
  \/ Cleanup
  \/ Tick

SpecRateLimit == RateLimitInit /\ [][RateLimitNext]_vars

(***************************************************************************)
(* The rate limiter with one operation at a time: a call, or a cleanup     *)
(* sweep, starts only when no call is in flight.                           *)
(***************************************************************************)
SeqStart(c) == RLStart(c) /\ \A d \in Callers : ~InFlight(d)

SeqCleanup == Cleanup /\ \A d \in Callers : ~InFlight(d)

RateLimitSeqNext ==
  \/ \E c \in Callers : SeqStart(c)
  \/ \E c \in Callers : RLFind(c)
  \/ \E c \in Callers : RLUpsert(c)
  \/ \E c \in Callers : RLIncrement(c)
  \/ SeqCleanup
  \/ Tick

SpecRateLimitSeq == RateLimitInit /\ [][RateLimitSeqNext]_vars

(***************************************************************************)
(* The rate limiter with one operation at a time and a storage that may    *)
(* fail any of its operations.                                             *)
(***************************************************************************)
RateLimitFaultyNext ==
  \/ RateLimitSeqNext
  \/ \E c \in Callers : RLFindFails(c)
  \/ \E c \in Callers : RLWriteFails(c)

SpecRateLimitFaulty == RateLimitInit /\ [][RateLimitFaultyNext]_vars

(***************************************************************************)
(* Requests of one ip arriving at the in-memory rate limiter over time.    *)
(***************************************************************************)
PluginInit ==
  /\ pMax \in 1..MaxLimit
  /\ pWindow \in 1..MaxWindow
  /\ pHit = NoHit
  /\ pRequests = 0
  /\ pReply = NoReply
  /\ HOff /\ MOff
  /\ RLOff /\ WhOff /\ BOff /\ TsOff

PluginNext == PluginRequest \/ Tick

SpecPlugin == PluginInit /\ [][PluginNext]_vars

(***************************************************************************)
(* One create request, single or batch, well-formed or not, handled by the *)
(* event controller.                                                       *)
(***************************************************************************)
RequestInit ==
  /\ hKind \in {"single", "batch"}
  /\ hMalformed \in BOOLEAN
  /\ hPc = "idle"
  /\ hResponse = NoResponse
  /\ BInit
  /\ hKind = "single" => (bItems = <<>> /\ bChunk = 1 /\ bConc = 1)
  /\ PlOff /\ MOff
  /\ RLOff /\ WhOff /\ TsOff

RequestNext ==
  \/ ControllerParse
  \/ BatchCalled /\ BatchStart
  \/ BatchCalled /\ \E k \in 1..MaxItems : CreateResolves(k)
  \/ BatchCalled /\ \E k \in 1..MaxItems : CreateRejects(k)
  \/ BatchCalled /\ NextWave
  \/ BatchCalled /\ LastWave
  \/ BatchCalled /\ \E k \in 1..MaxItems : BatchTriggerSettles(k)
  \/ BatchCalled /\ BatchReturn
  \/ SingleCalled /\ hPc = "parsed" /\ SingleStart
  \/ SingleCalled /\ hPc = "parsed" /\ SingleCreated
  \/ SingleCalled /\ hPc = "parsed" /\ SingleFailed
  \/ SingleCalled /\ SingleTriggerSettles
  \/ ControllerReplyCreated
  \/ ControllerReplyError

SpecRequest == RequestInit /\ [][RequestNext]_vars

(***************************************************************************)
(* One trigger delivered to the webhooks of the webhook table.             *)
(***************************************************************************)
WebhookInit == WhInit /\ RLOff /\ BOff /\ TsOff /\ EdgeOff

SpecWebhook == WebhookInit /\ [][WhNext]_vars

(***************************************************************************)
(* One trigger delivered to webhooks that all match, each with a secret of *)
(* its own choice, over a storage that does not fail.                      *)
(***************************************************************************)
SignedInit ==
  /\ whEnabled = [w \in Webhooks |-> TRUE]
  /\ whSubscribed = [w \in Webhooks |-> TRUE]
  /\ whSecret \in [Webhooks -> Secrets]
  /\ whRetryCount = [w \in Webhooks |-> MaxRetries]
  /\ tPayload \in Payloads
  /\ WhIdle
  /\ RLOff /\ BOff /\ TsOff /\ EdgeOff

WhReliableNext ==
  \/ TriggerWebhooks
  \/ TriggerDeliver
  \/ \E w \in Webhooks : HttpSuccess(w)
  \/ \E w \in Webhooks : HttpFailure(w)
  \/ \E w \in Webhooks : Wake(w)
  \/ \E w \in Webhooks : UpdateWebhook(w)
  \/ \E w \in Webhooks : CreateDelivery(w)
  \/ TriggerResolves

SpecWebhookSigned == SignedInit /\ [][WhReliableNext]_vars

(***************************************************************************)
(* One trigger delivered to webhooks that all match, each configured with  *)
(* a retry count of its own, over a storage that does not fail.            *)
(***************************************************************************)
RetryInit ==
  /\ whEnabled = [w \in Webhooks |-> TRUE]
  /\ whSubscribed = [w \in Webhooks |-> TRUE]
  /\ whSecret = [w \in Webhooks |-> "s1"]
  /\ whRetryCount \in [Webhooks -> RetryCounts]
  /\ tPayload = "p1"
  /\ WhIdle
  /\ RLOff /\ BOff /\ TsOff /\ EdgeOff

SpecWebhookRetry == RetryInit /\ [][WhReliableNext]_vars

(***************************************************************************)
(* MonitorPerformance: calls of one decorated method.  The decorator makes *)
(* one PerformanceMonitor for the method, and every call uses the same     *)
(* operation id, `${target.constructor.name}.${propertyKey}`.  A call      *)
(* starts its timer, awaits the underlying method, and ends its timer in   *)
(* the continuation; calls interleave at the await.                        *)
(***************************************************************************)
Monitored == 1..NumMonitored

OperationId == "Class.method"

\* what the decorated method produces when endTimer throws
NoTimerFound == "No timer found for operation"

\* the log record of logPerformance(operationId, duration, {success})
TimingRecord(success) == [operation |-> OperationId, success |-> success]

\* the first lines of the wrapper: monitor.startTimer(operationId), then the
\* underlying method is called and awaited
MonitorCall(c) ==
  /\ mPc[c] = "idle"
  /\ mPc' = [mPc EXCEPT ![c] = "running"]
  /\ mTimers' = mTimers \cup {OperationId}
  /\ UNCHANGED <<mOutcome, mReturned, mLog>>
  /\ UNCHANGED notM

\* the wrapper after the await, the underlying method having settled with
\* `outcome`: endTimer logs and deletes the timer when there is one, and the
\* call produces the outcome; without a timer endTimer throws, from the try
\* block into the catch block whose endTimer throws again, or from the catch
\* block, and the call rejects with that error
MonitorSettles(c, outcome) ==
  /\ mPc[c] = "running"
  /\ mPc' = [mPc EXCEPT ![c] = "done"]
  /\ mOutcome' = [mOutcome EXCEPT ![c] = outcome]
  /\ IF OperationId \in mTimers
       THEN /\ mLog' = [mLog EXCEPT ![c] = Append(@, TimingRecord(outcome = "value"))]
            /\ mTimers' = mTimers \ {OperationId}
            /\ mReturned' = [mReturned EXCEPT ![c] = outcome]
       ELSE /\ mReturned' = [mReturned EXCEPT ![c] = NoTimerFound]
            /\ UNCHANGED <<mLog, mTimers>>
  /\ UNCHANGED notM

\* the underlying method resolves
MethodResolves(c) == MonitorSettles(c, "value")

\* the underlying method rejects
MethodRejects(c) == MonitorSettles(c, "error")

MonitorInit == MOff /\ PlOff /\ HOff /\ RLOff /\ WhOff /\ BOff /\ TsOff

MonitorNext ==
  \/ \E c \in Monitored : MonitorCall(c)
  \/ \E c \in Monitored : MethodResolves(c)
  \/ \E c \in Monitored : MethodRejects(c)

SpecMonitor == MonitorInit /\ [][MonitorNext]_vars

(***************************************************************************)
(* One createBatchEvents call.                                             *)
(***************************************************************************)
IngestInit == BInit /\ RLOff /\ WhOff /\ TsOff /\ EdgeOff

IngestNext ==
  \/ BatchInvalid
  \/ BatchStart
  \/ \E k \in 1..MaxItems : CreateResolves(k)
  \/ \E k \in 1..MaxItems : CreateRejects(k)
  \/ NextWave
  \/ LastWave
  \/ \E k \in 1..MaxItems : BatchTriggerSettles(k)
  \/ BatchReturn

SpecIngest == IngestInit /\ [][IngestNext]_vars

\* every pending create and every running triggerWebhooks call settles in the
\* end (a storage call answers or fails; a delivery makes at most maxRetries
\* attempts, each with a timeout), and the event loop runs whatever is ready
SpecIngestLive == IngestInit /\ [][IngestNext]_vars /\ WF_vars(IngestNext)

(***************************************************************************)
(* One createEvent call.                                                   *)
(***************************************************************************)
CreateEventNext ==
  \/ SingleStart
  \/ SingleCreated
  \/ SingleFailed
  \/ SingleTriggerSettles

SpecCreateEvent == (BOff /\ RLOff /\ WhOff /\ TsOff /\ EdgeOff) /\ [][CreateEventNext]_vars

(***************************************************************************)
(* One aggregation query, through EventService.aggregateEvents or straight *)
(* to TimeSeriesAggregator.aggregate.  The spans tried are those around 0, *)
(* around every interval's maximum and around the maximum date range.      *)
(***************************************************************************)
AggregateSpans ==
  {0 - 1, 0, 1}
    \cup UNION {{IntervalConfigs(i).maxTimeRange, IntervalConfigs(i).maxTimeRange + 1} : i \in Intervals}
    \cup {MAX_DATE_RANGE_DAYS * Day, MAX_DATE_RANGE_DAYS * Day + 1}

TsInit ==
  /\ tsPc = "idle"
  /\ tsOp = "none"
  /\ tsError = NoError
  /\ tsView = "none"
  /\ tsSuggested = "none"
  /\ tsBuckets = <<>>

AggregateInit ==
  /\ tsInterval \in Intervals
  /\ tsStart \in 0..MaxStart
  /\ \E span \in AggregateSpans : tsEnd = tsStart + span
  /\ TsInit
  /\ RLOff /\ WhOff /\ BOff /\ EdgeOff

AggregateNext == Aggregate \/ AggregateEvents

SpecAggregate == AggregateInit /\ [][AggregateNext]_vars

(***************************************************************************)
(* One call of suggestInterval or generateBuckets, on times of a half-hour *)
(* grid and on times around the 24 hour, 7 day and 30 day thresholds.      *)
(***************************************************************************)
BucketTimes ==
  {k * (Hour \div 2) : k \in 0..MaxHalfHours}
    \cup {Day, Day + 1, Day + Hour, 2 * Day + (Hour \div 2),
          7 * Day, 7 * Day + 1, 30 * Day, 30 * Day + 1}

BucketsInit ==
  /\ tsInterval = "1h"
  /\ tsStart \in BucketTimes
  /\ tsEnd \in BucketTimes
  /\ TsInit
  /\ RLOff /\ WhOff /\ BOff /\ EdgeOff

BucketsNext == CallSuggestInterval \/ CallGenerateBuckets

SpecBuckets == BucketsInit /\ [][BucketsNext]_vars

(***************************************************************************)
(* Claims about the rate limiter                                           *)
(***************************************************************************)

\* the completed calls up to the j-th that report the window of the j-th
WindowCalls(j) == {i \in 1..j : hist[i].ret.resetAt = hist[j].ret.resetAt}

\* every call of the j-th call's window was made before the window's end
AllInsideWindow(j) == \A i \in WindowCalls(j) : hist[i].now < hist[i].ret.resetAt

\* C1: concurrent checkRateLimit calls on one (key, endpoint) behave as if run
\* one at a time: two calls that read the same absent or expired state of the
\* row (no write between their reads) never both get count = 1, and when no call is in flight the stored count is the number
\* of calls completed in the stored window (no increment is lost).
C1_Linearizable ==
  /\ \A i, j \in 1..Len(hist) :
       (/\ i # j
        /\ hist[i].foundVer = hist[j].foundVer
        /\ IsExpired(hist[i].found, hist[i].now)
        /\ IsExpired(hist[j].found, hist[j].now))
       => ~(hist[i].ret.count = 1 /\ hist[j].ret.count = 1)
  /\ ((\A c \in Callers : ~InFlight(c)) /\ row # NoRow)
       => row.count = Cardinality({i \in 1..Len(hist) : hist[i].ret.resetAt = row.resetAt})

\* C2: of the checks made one after another inside one window, the first max
\* are allowed and every later one is rejected with remaining = 0; remaining
\* is never negative in any response.
C2_LimitEnforced ==
  \A j \in 1..Len(hist) :
    /\ hist[j].info.remaining >= 0
    /\ AllInsideWindow(j) =>
         LET n == Cardinality(WindowCalls(j))
         IN /\ n <= cfgMax => ~hist[j].info.isLimited
            /\ n > cfgMax => hist[j].info.isLimited /\ hist[j].info.remaining = 0

\* C2 witness: the (max+1)-th check of a window was made and rejected
C2_Witness ==
  \E j \in 1..Len(hist) :
    /\ AllInsideWindow(j)
    /\ Cardinality(WindowCalls(j)) = cfgMax + 1
    /\ hist[j].info.isLimited
    /\ hist[j].info.remaining = 0

\* C3: the first call made after windowResetAt has passed stores count = 1 and
\* windowResetAt = now + windowMs and is allowed with remaining = max - 1,
\* whatever the count of the previous window.
C3_WindowRollover ==
  \A j \in 1..Len(hist) :
    (hist[j].found # NoRow /\ hist[j].found.resetAt < hist[j].now)
    => /\ hist[j].stored.count = 1
       /\ hist[j].stored.resetAt = hist[j].now + cfgWindow
       /\ hist[j].ret = hist[j].stored
       /\ ~hist[j].info.isLimited
       /\ hist[j].info.remaining = cfgMax - 1

\* C3 witness: a call made after the end of a window whose count was above max
C3_Witness ==
  \E j \in 1..Len(hist) :
    /\ hist[j].found # NoRow
    /\ hist[j].found.resetAt < hist[j].now
    /\ hist[j].found.count > cfgMax
    /\ hist[j].stored.count = 1

\* C4: inside an active window every call adds exactly 1 to the stored count,
\* also when it is rejected, so the n-th call of a window leaves count = n; it
\* is allowed iff that count is <= max, and remaining = max(0, max - count).
C4_IncrementAlways ==
  \A j \in 1..Len(hist) :
    /\ (hist[j].found # NoRow /\ hist[j].now < hist[j].found.resetAt)
       => /\ hist[j].stored.count = hist[j].found.count + 1
          /\ hist[j].ret.count = hist[j].stored.count
          /\ ~hist[j].info.isLimited <=> hist[j].stored.count <= cfgMax
          /\ hist[j].info.remaining = Max2(0, cfgMax - hist[j].stored.count)
    /\ AllInsideWindow(j) => hist[j].stored.count = Cardinality(WindowCalls(j))

\* C4 witness: a call made when the count was already above max was counted
C4_Witness ==
  \E j \in 1..Len(hist) :
    /\ hist[j].found # NoRow
    /\ hist[j].now < hist[j].found.resetAt
    /\ hist[j].found.count > cfgMax
    /\ hist[j].stored.count = hist[j].found.count + 1
    /\ hist[j].info.isLimited

(***************************************************************************)
(* Claims about webhook delivery                                           *)
(***************************************************************************)

\* the number of the first HTTP attempt that succeeded, 0 when none did
FirstSuccess(h) ==
  IF \E k \in 1..Len(h) : h[k]
    THEN CHOOSE k \in 1..Len(h) : h[k] /\ \A i \in 1..(k - 1) : ~h[i]
    ELSE 0

\* C9: the HTTP attempts of one delivery are numbered 1, 2, ... and made one
\* after another; never more than maxRetries are made; the delivery ends in
\* Success at the first attempt k that succeeds, with exactly k HTTP calls made
\* and result and record carrying success and attempt count k, and in Failed
\* only after attempt maxRetries has failed.
C9_RetryStateMachine ==
  \A w \in Webhooks :
    LET k == FirstSuccess(dHttp[w])
    IN /\ Len(dHttp[w]) <= MaxRetries
       /\ dPc[w] = "posting" => dAttempt[w] = Len(dHttp[w]) + 1
       /\ k > 0 => Len(dHttp[w]) = k
       /\ (dPc[w] = "returned" /\ k > 0)
            => /\ dResult[w] = SuccessResult(k)
               /\ dRecords[w] = <<DeliveryRecord(w, SuccessResult(k))>>
       /\ (dPc[w] = "returned" /\ ~dResult[w].success)
            => /\ Len(dHttp[w]) = MaxRetries
               /\ k = 0

\* C10: a delivery that has ended with a result has exactly one WebhookDelivery
\* record, carrying the final status (success iff an HTTP attempt succeeded)
\* and the attempt count at termination (the first successful attempt, or
\* maxRetries); before that no record is written.
C10_OneRecordPerDelivery ==
  \A w \in Webhooks :
    LET k == FirstSuccess(dHttp[w])
    IN /\ dPc[w] # "returned" => dRecords[w] = <<>>
       /\ dPc[w] = "returned"
            => dRecords[w] =
                 << [webhookId |-> w,
                     status |-> IF k > 0 THEN "success" ELSE "failed",
                     retryCount |-> IF k > 0 THEN k ELSE MaxRetries] >>

\* C11: triggerWebhooks never raises because of a subscriber's delivery
\* failure: a delivery rejects only out of updateDeliveryStatus (never out of
\* an HTTP attempt), the trigger rejects only when a delivery has rejected, and
\* a trigger that resolves has one result per matched subscriber, the ones
\* whose every attempt failed having success = false.
C11_NeverRaisesOnDeliveryFailure ==
  /\ [](tPc = "resolved" =>
          \A w \in tMatched :
            /\ dPc[w] = "returned"
            /\ dResult[w] # NoResult
            /\ FirstSuccess(dHttp[w]) = 0 => dResult[w] = FailedResult(MaxRetries))
  /\ [][\A w \in Webhooks :
          (dPc'[w] = "threw" /\ dPc[w] # "threw") => dPc[w] \in {"updating", "recording"}]_vars
  /\ [][(tPc' = "rejected" /\ tPc # "rejected") => \E w \in tMatched : dPc[w] = "threw"]_vars

\* C11 witness: the trigger has resolved with both results though one of two
\* subscribers failed every attempt
C11_Witness ==
  /\ tPc = "resolved"
  /\ \E w, x \in tMatched :
       /\ Len(dHttp[w]) = MaxRetries
       /\ FirstSuccess(dHttp[w]) = 0
       /\ dResult[w] = FailedResult(MaxRetries)
       /\ dResult[x].success

\* C12: delivering a trigger never modifies a webhook: no step of a trigger
\* changes a webhook's enabled flag or its subscribed event types.
C12_SubscriptionReadOnly ==
  [][whEnabled' = whEnabled /\ whSubscribed' = whSubscribed]_vars

\* C13: deliveries to different subscribers are independent: a subscriber that
\* fails to be recorded does not change what is reported for the others, so a
\* trigger only fails to report the result of a delivery that itself rejected.
C13_IndependentDeliveries ==
  tPc = "rejected" => \A w \in tMatched : dPc[w] = "threw"

\* C14: the webhooks a trigger delivers to are exactly those enabled and
\* subscribed to the event type when the trigger is made: each of them gets an
\* HTTP call and one result, and a webhook that is disabled or not subscribed
\* gets no HTTP call and no delivery record.
C14_ExactlyEnabledSubscribers ==
  \A w \in Webhooks :
    /\ (tPc # "idle" /\ tPc # "finding" /\ w \notin tMatched)
         => /\ ~(whEnabled[w] /\ whSubscribed[w])
            /\ dPc[w] = "none"
    /\ w \in tMatched => /\ whSubscribed[w]
                         /\ dHttp[w] = <<>> => whEnabled[w]
    /\ w \notin tMatched => /\ dHttp[w] = <<>>
                            /\ dRecords[w] = <<>>
                            /\ dResult[w] = NoResult
    /\ (tPc = "resolved" /\ w \in tMatched)
         => /\ Len(dHttp[w]) >= 1
            /\ dResult[w] # NoResult
            /\ Len(dRecords[w]) = 1

\* C14 witness: of two webhooks subscribed to the event type, the enabled one
\* was delivered to and the disabled one was left alone
C14_Witness ==
  /\ tPc = "resolved"
  /\ \E w, x \in Webhooks :
       /\ w \in tMatched /\ Len(dHttp[w]) >= 1 /\ dResult[w].success
       /\ whSubscribed[x] /\ x \notin tMatched /\ dHttp[x] = <<>>

(***************************************************************************)
(* Claims about event ingestion                                            *)
(***************************************************************************)

\* createBatchEvents has its results complete (it awaits the triggers or has returned)
ResultsComplete == bPc \in {"triggering", "returned"}

\* the wave an item belongs to, from its position alone
WaveOf(k) == ((k - 1) \div bChunk) \div bConc

\* C5: createBatchEvents returns exactly N results and result k is the outcome
\* of input item k, whatever chunkSize and maxConcurrentChunks are and whatever
\* order the creates complete in.
C5_OrderPreserved ==
  /\ \A k \in 1..Len(bResults) : bResults[k].tag = bItems[k].tag /\ bResults[k] = bOut[k]
  /\ ResultsComplete => Len(bResults) = Len(bItems)

\* C5 witness: a batch of several chunks has returned and its creates did not
\* complete in input order
C5_Witness ==
  /\ bPc = "returned"
  /\ NumChunks >= 2
  /\ \E x, y \in 1..Len(bDoneOrder) : x < y /\ bDoneOrder[x] > bDoneOrder[y]

\* C6: an item whose create fails is reported as failed with its error message
\* and every other item with its own outcome: an item whose create succeeds is
\* stored, stays stored and is reported as the created event; the batch is not
\* aborted.
C6_FailureIsolation ==
  /\ bPc # "threw"
  /\ \A k \in 1..Len(bItems) :
       /\ bCreate[k] = "created" => bOut[k] \in store
       /\ ResultsComplete =>
            /\ bCreate[k] \in {"created", "failed"}
            /\ bCreate[k] = "failed" =>
                 /\ bResults[k].status = "failed"
                 /\ bResults[k].error = k
                 /\ bResults[k].id = 0
                 /\ bResults[k].tag = bItems[k].tag
            /\ bCreate[k] = "created" =>
                 /\ bResults[k] \in store
                 /\ bResults[k].id # 0
                 /\ bResults[k].error = 0
                 /\ bResults[k].tag = bItems[k].tag
                 /\ bResults[k].status = bItems[k].status

\* C6 witness: a batch has returned in which an item failed and a sibling, whose
\* create completed after that failure, was created
C6_Witness ==
  /\ bPc = "returned"
  /\ \E x, y \in 1..Len(bDoneOrder) :
       /\ x < y
       /\ bCreate[bDoneOrder[x]] = "failed"
       /\ bCreate[bDoneOrder[y]] = "created"
       /\ bResults[bDoneOrder[y]] \in store

\* C7: ingestion does not wait for webhook delivery: createBatchEvents is never
\* suspended on a triggerWebhooks call that is still running.
C7_NeverAwaitsDelivery == ~(bPc = "triggering" /\ \E k \in 1..MaxItems : bTrig[k] = "running")

\* C8: no create of a later wave starts before every create of the earlier
\* waves has completed, and at most maxConcurrentChunks x chunkSize creates are
\* in flight.
C8_WaveBarrier ==
  /\ Cardinality({k \in 1..Len(bItems) : bCreate[k] = "inFlight"}) <= bConc * bChunk
  /\ \A j, k \in 1..Len(bItems) :
       (WaveOf(j) < WaveOf(k) /\ bCreate[k] # "none") => bCreate[j] \in {"created", "failed"}

\* C8 witness: a create of the second wave is in flight
C8_Witness ==
  \E k \in 1..Len(bItems) : WaveOf(k) = 1 /\ bCreate[k] = "inFlight"

\* the items of the batch whose create ended this way
ItemsWith(outcome) == {k \in 1..Len(bItems) : bCreate[k] = outcome}

\* C15: an item is dispatched to triggerWebhooks (once) and counted in
\* summary.success if and only if its create succeeded, whatever status it was
\* submitted with; an item whose create failed is not dispatched and is counted
\* in summary.failed; total = success + failed = N.
C15_SucceededIffCreated ==
  ResultsComplete =>
    /\ \A k \in 1..Len(bItems) : (bTrig[k] # "none") <=> (bCreate[k] = "created")
    /\ Summary(bResults).success = Cardinality(ItemsWith("created"))
    /\ Summary(bResults).failed = Cardinality(ItemsWith("failed"))
    /\ Summary(bResults).total = Len(bItems)
    /\ Summary(bResults).total = Summary(bResults).success + Summary(bResults).failed

Finest == CHOOSE i \in Intervals :
            \A j \in Intervals : IntervalConfigs(i).width <= IntervalConfigs(j).width

\* C18: an aggregation request with end <= start is rejected, by the check made
\* first; otherwise one whose span exceeds the interval's maximum is rejected;
\* both rejections are answered as a VALIDATION error with a 4xx status, and no
\* view is resolved.
C18_RejectedAsValidation ==
  (tsPc = "done" /\ tsOp \in {"aggregate", "aggregateEvents"}) =>
    LET span == tsEnd - tsStart
        response == ErrorResponse(tsError)
        rejected == /\ tsError # NoError
                    /\ response.error = "VALIDATION"
                    /\ response.statusCode \in 400..499
                    /\ tsView = "none"
    IN /\ span <= 0 => rejected /\ tsError.check = "order"
       /\ (span > 0 /\ span > IntervalConfigs(tsInterval).maxTimeRange)
            => rejected /\ tsError.check = "span"

\* C19: for start < end the buckets of generateBuckets begin at start, each
\* ends where the next begins, each is non-empty and the last ends exactly at
\* end; a range shorter than one bucket width gives the single bucket
\* [start, end).
C19_BucketsCoverRange ==
  (tsPc = "done" /\ tsOp = "generateBuckets" /\ tsStart < tsEnd) =>
    /\ Len(tsBuckets) >= 1
    /\ tsBuckets[1].start = tsStart
    /\ \A k \in 1..(Len(tsBuckets) - 1) : tsBuckets[k].end = tsBuckets[k + 1].start
    /\ \A k \in 1..Len(tsBuckets) : tsBuckets[k].start < tsBuckets[k].end
    /\ tsBuckets[Len(tsBuckets)].end = tsEnd
    /\ tsEnd - tsStart < IntervalConfigs(SuggestInterval(tsStart, tsEnd)).width
         => tsBuckets = <<[start |-> tsStart, end |-> tsEnd]>>

\* C19 witness: a range of several buckets whose last bucket was clipped
C19_Witness ==
  /\ tsPc = "done" /\ tsOp = "generateBuckets"
  /\ Len(tsBuckets) >= 2
  /\ tsBuckets[Len(tsBuckets)].end = tsEnd
  /\ tsBuckets[Len(tsBuckets)].end - tsBuckets[Len(tsBuckets)].start
       < tsBuckets[1].end - tsBuckets[1].start

\* C20: suggestInterval returns the finest supported interval for a span of at
\* most 24 hours, and never a finer interval for a longer span than for a
\* shorter one.
C20_SuggestFinestThenCoarser ==
  (tsPc = "done" /\ tsOp = "suggestInterval") =>
    /\ Abs(tsEnd - tsStart) <= 24 * Hour => tsSuggested = Finest
    /\ \A s, e \in BucketTimes :
         Abs(e - s) <= Abs(tsEnd - tsStart)
           => IntervalConfigs(SuggestInterval(s, e)).width <= IntervalConfigs(tsSuggested).width

(***************************************************************************)
(* Claims about failures and boundaries of the rate limiter                *)
(***************************************************************************)

\* C21: a checkRateLimit call in which a storage operation failed has raised
\* an error and returned no verdict, neither allowed nor limited; only a call
\* that completed has a verdict, and a call has completed only when its
\* lookup and its write both succeeded.
C21_StorageErrorNoVerdict ==
  \A c \in Callers :
    /\ rlPc[c] = "error" => rlInfo[c] = NoInfo
    /\ rlInfo[c] # NoInfo => rlPc[c] = "done"
    /\ rlPc[c] = "error" => \A i \in 1..Len(hist) : hist[i].caller # c
    /\ rlPc[c] = "done" => \E i \in 1..Len(hist) : hist[i].caller = c

\* C21 witness: one call failed at the lookup and another at the write that
\* follows a lookup which had found the row
C21_Witness ==
  \E c, d \in Callers :
    /\ rlPc[c] = "error" /\ rlVer[c] = 0 /\ rlFound[c] = NoRow /\ ver > 0
    /\ rlPc[d] = "error" /\ rlFound[d] # NoRow

\* C26: a call made at exactly now = windowResetAt starts a new window: it
\* stores count = 1 and windowResetAt = now + windowMs and is allowed, whatever
\* the old window's count.
C26_ResetAtBoundary ==
  \A j \in 1..Len(hist) :
    (hist[j].found # NoRow /\ hist[j].now = hist[j].found.resetAt)
    => /\ hist[j].stored.count = 1
       /\ hist[j].stored.resetAt = hist[j].now + cfgWindow
       /\ ~hist[j].info.isLimited

\* C30: cleanup running concurrently with checkRateLimit is harmless: no call
\* fails because its row was swept between its read and its write, and cleanup
\* only removes a row whose windowResetAt has passed.
C30_CleanupHarmless ==
  /\ [](\A c \in Callers : rlPc[c] # "error")
  /\ [][(row # NoRow /\ row' = NoRow) => row.resetAt < clock]_vars

\* C22: every request rejected by rate limiting is answered with the limit,
\* the remaining count and the reset time, on the in-memory path as on the
\* persisted one.
C22_RejectionCarriesLimitInfo ==
  pReply.status = TooManyRequests
    => GetHeaders(TRUE) \subseteq (pReply.headers \cup pReply.body)

\* C23: a malformed create request (an event violating the schema, an empty
\* or an oversized batch) is answered with a 4xx validation error and stores
\* nothing; it is never answered with a 5xx.
C23_MalformedIs4xx ==
  ~SchemaAccepts =>
    /\ store = {}
    /\ hPc \in {"idle", "replied"}
    /\ hPc = "replied" => hResponse.statusCode \in 400..499

(***************************************************************************)
(* Claims about signatures, retry counts and terminal deliveries           *)
(***************************************************************************)

\* C24: on every HTTP attempt of a delivery the signature sent is
\* hex(HMAC-SHA256(the target webhook's secret, the JSON text sent as the
\* body)), the body being the JSON text of the trigger's payload; it is the
\* same on the first attempt and on every retry.
C24_SignatureOfPayload ==
  \A w \in Webhooks :
    /\ Len(dSent[w]) = dAttempt[w]
    /\ \A k \in 1..Len(dSent[w]) :
         /\ dSent[w][k].body = JsonStringify(tPayload)
         /\ dSent[w][k].signature = Hex(HmacSha256(whSecret[w], dSent[w][k].body))
         /\ dSent[w][k].signature = dSent[w][1].signature
         /\ dSent[w][k].webhookId = w

\* C24 witness: two webhooks with different secrets were sent differently
\* signed requests, one of them on a retry
C24_Witness ==
  \E w, x \in Webhooks :
    /\ whSecret[w] # whSecret[x]
    /\ Len(dSent[w]) >= 2
    /\ Len(dSent[x]) >= 1
    /\ dSent[w][2].signature # dSent[x][1].signature

\* C25: a delivery that ended in Failed has made as many HTTP attempts as the
\* retry count configured for its webhook.
C25_OwnRetryCount ==
  \A w \in Webhooks :
    (dPc[w] = "returned" /\ ~dResult[w].success /\ FirstSuccess(dHttp[w]) = 0)
      => Len(dHttp[w]) = whRetryCount[w]

\* C28: once an HTTP attempt of a delivery has succeeded no further attempt is
\* made for it: a successful attempt is the last one, and the delivery is
\* neither posting again nor waiting to retry.
C28_NoAttemptAfterSuccess ==
  \A w \in Webhooks :
    /\ \A k \in 1..(Len(dHttp[w]) - 1) : ~dHttp[w][k]
    /\ FirstSuccess(dHttp[w]) > 0 => dPc[w] \notin {"posting", "sleeping"}

\* C27: aggregateEvents accepts a query exactly when end > start and
\* end - start is at most the interval's configured maximum span, and an
\* accepted query resolves the view configured for the interval.
C27_AcceptedWithinIntervalSpan ==
  (tsPc = "done" /\ tsOp = "aggregateEvents") =>
    LET span == tsEnd - tsStart
        accepted == tsError = NoError
    IN /\ accepted <=> (span > 0 /\ span <= IntervalConfigs(tsInterval).maxTimeRange)
       /\ accepted => tsView = IntervalConfigs(tsInterval).viewName

(***************************************************************************)
(* Claims about MonitorPerformance                                         *)
(***************************************************************************)

\* C29: every finished call of a decorated method has produced exactly what
\* the underlying method produced for it, its value or its error, and exactly
\* one timing record with the matching success flag was logged for it,
\* whatever other calls of the method were in flight.
C29_TransparentUnderConcurrency ==
  \A c \in Monitored :
    mPc[c] = "done" =>
      /\ mReturned[c] = mOutcome[c]
      /\ Len(mLog[c]) = 1
      /\ mLog[c][1].success = (mOutcome[c] = "value")

====
